---- MODULE Spec2Model ----
(***************************************************************************)
(* A model of pydactyl/api_client.py: the PterodactylClient constructor,   *)
(* the retry adapter it mounts on its requests.Session, the two session    *)
(* mutators (set_cookies, set_user_agent) and the six accessor properties. *)
(*                                                                         *)
(* Python values: str-typed slots hold TLA+ strings, with None as the      *)
(* sentinel string None; object references are serial numbers, with Null   *)
(* for a reference that holds None.  The attributes of the client object   *)
(* are the domain of the function self: an attribute that was never        *)
(* assigned is not in DOMAIN self.                                         *)
(***************************************************************************)
EXTENDS Naturals, Sequences, FiniteSets, Bags, TLC

VARIABLES
    pc,        \* "new": before __init__; "ready": __init__ returned; "failed": __init__ raised
    args,      \* the arguments __init__ was called with
    self,      \* the instance attributes of the PterodactylClient object
    sessions,  \* every requests.Session object created so far, by reference (index)
    returned,  \* the bag of accessor objects the properties have returned so far
    raised,    \* the exception the most recent call raised, "none" if it returned
    ua_log     \* the arguments of the set_user_agent calls so far, oldest first

vars == <<pc, args, self, sessions, returned, raised, ua_log>>

(***************************************************************************)
(* Bounds of the model.                                                    *)
(***************************************************************************)
MaxExtra == 2        \* longest extra_retry_codes list
MaxCookies == 2      \* longest list handed to one set_cookies call
MaxAccess == 2       \* accessor objects created in one run
MaxAgentCalls == 2   \* set_user_agent calls in one run

(***************************************************************************)
(* Python values.                                                          *)
(***************************************************************************)
None == "<None>"
Null == 0

Range(s) == {s[i] : i \in DOMAIN s}

SeqsUpTo(S, n) == UNION {[1..k -> S] : k \in 0..n}

IsNotNone(x) == x # None

\* bool(x) of a str-or-None value: None and "" are falsy (lines 49 and 53: "not url")
Truthy(x) == x # None /\ x # ""

\* d.get(key, default) of a dict d
Get(d, key, default) == IF key \in DOMAIN d THEN d[key] ELSE default

\* d.update(e): the keys of e are set in d, the other keys of d are kept
Update(d, e) == [k \in DOMAIN d \cup DOMAIN e |-> IF k \in DOMAIN e THEN e[k] ELSE d[k]]

EmptyDict == [k \in {} |-> None]

(***************************************************************************)
(* http_adapter: the retry policy and the adapter that carries it.         *)
(***************************************************************************)
AllowedMethods == <<"DELETE", "GET", "HEAD", "OPTIONS", "POST", "PUT">>

http_adapter_or429(backoff_factor, retries, extra_retry_codes) ==
    [max_retries |->
        [total |-> retries,
         status_forcelist |-> IF extra_retry_codes # <<>> THEN extra_retry_codes ELSE <<429>>,
         backoff_factor |-> backoff_factor,
         allowed_methods |-> AllowedMethods]]

http_adapter(backoff_factor, retries, extra_retry_codes) ==
    LET retry_codes == <<429>> \o extra_retry_codes
    IN  [max_retries |->
            [total |-> retries,
             status_forcelist |-> retry_codes,
             backoff_factor |-> backoff_factor,
             allowed_methods |-> AllowedMethods]]

get_logger == "pydactyl.api_client"

(***************************************************************************)
(* requests.Session(): default headers, an empty cookie jar, and a default *)
(* HTTPAdapter (no retries, the library's own method list) on both         *)
(* prefixes.                                                               *)
(***************************************************************************)
DefaultHeaders ==
    ("User-Agent" :> "python-requests") @@ ("Accept-Encoding" :> "gzip, deflate")
        @@ ("Accept" :> "*/*") @@ ("Connection" :> "keep-alive")

DefaultAdapter ==
    [max_retries |->
        [total |-> 0,
         status_forcelist |-> <<>>,
         backoff_factor |-> 0,
         allowed_methods |-> <<"DELETE", "GET", "HEAD", "OPTIONS", "PUT", "TRACE">>]]

NewSession ==
    [headers |-> DefaultHeaders,
     cookies |-> EmptyDict,
     adapters |-> ("https://" :> DefaultAdapter) @@ ("http://" :> DefaultAdapter)]

mount_https_only(session, adapter) ==
    [session EXCEPT !.adapters = Update(@, "https://" :> adapter)]

\* lines 65-66: the one adapter is mounted on both prefixes
mount(session, adapter) ==
    [session EXCEPT !.adapters =
        Update(Update(@, "https://" :> adapter), "http://" :> adapter)]

(***************************************************************************)
(* PterodactylClient.__init__ (lines 36-73).                               *)
(***************************************************************************)
NoAttributes == [k \in {} |-> Null]

Attributes(url, api_key, logger, session) ==
    [_api_key |-> api_key, _url |-> url, _logger |-> logger, _session |-> session,
     _client |-> Null, _locations |-> Null, _nests |-> Null,
     _nodes |-> Null, _servers |-> Null, _user |-> Null]

\* the session with the adapter of this configuration mounted (lines 61-66)
BuildSession(backoff_factor, retries, extra_retry_codes) ==
    mount(NewSession, http_adapter(backoff_factor, retries, extra_retry_codes))

PterodactylClient_init_late(url, api_key, backoff_factor, retries, extra_retry_codes, logger) ==
    /\ pc = "new"
    /\ args' = [url |-> url, api_key |-> api_key, backoff_factor |-> backoff_factor,
                retries |-> retries, extra_retry_codes |-> extra_retry_codes,
                logger |-> logger]
    /\ sessions' = Append(sessions, BuildSession(backoff_factor, retries, extra_retry_codes))
    /\ self' = Attributes(url, api_key, logger, Len(sessions) + 1)
    /\ IF ~Truthy(url) \/ ~Truthy(api_key)
       THEN pc' = "failed" /\ raised' = "ClientConfigError"
       ELSE pc' = "ready" /\ raised' = "none"
    /\ UNCHANGED <<returned, ua_log>>

PterodactylClient_init(url, api_key, backoff_factor, retries, extra_retry_codes, logger) ==
    /\ pc = "new"
    /\ args' = [url |-> url, api_key |-> api_key, backoff_factor |-> backoff_factor,
                retries |-> retries, extra_retry_codes |-> extra_retry_codes,
                logger |-> logger]
    /\ IF ~Truthy(url)
       THEN /\ pc' = "failed"
            /\ raised' = "ClientConfigError"
            /\ UNCHANGED <<self, sessions>>
       ELSE IF ~Truthy(api_key)
       THEN /\ pc' = "failed"
            /\ raised' = "ClientConfigError"
            /\ UNCHANGED <<self, sessions>>
       ELSE /\ sessions' = Append(sessions,
                                  BuildSession(backoff_factor, retries, extra_retry_codes))
            /\ self' = Attributes(url, api_key, logger, Len(sessions) + 1)
            /\ pc' = "ready"
            /\ raised' = "none"
    /\ UNCHANGED <<returned, ua_log>>

(***************************************************************************)
(* set_cookies (lines 75-85).  RequestsCookieJar.set keys a cookie by      *)
(* (domain, path, name) and replaces the cookie already stored under that  *)
(* key; handed domain=None it raises AttributeError while building the     *)
(* cookie (create_cookie calls domain.startswith), before it stores        *)
(* anything.                                                               *)
(***************************************************************************)
cookies_set(jar, name, value, domain, path) ==
    IF domain = None
    THEN [jar |-> jar, raised |-> "AttributeError"]
    ELSE [jar |-> Update(jar, <<domain, path, name>> :> value), raised |-> "none"]

RECURSIVE for_cookie_in(_, _)
for_cookie_in(jar, cookies) ==
    IF cookies = <<>>
    THEN [jar |-> jar, raised |-> "none"]
    ELSE LET cookie == Head(cookies)
         IN  IF "name" \notin DOMAIN cookie \/ "value" \notin DOMAIN cookie
             THEN [jar |-> jar, raised |-> "KeyError"]
             ELSE LET r == cookies_set(jar, cookie["name"], cookie["value"],
                                       Get(cookie, "domain", None),
                                       Get(cookie, "path", "/"))
                  IN  IF r.raised # "none" THEN r ELSE for_cookie_in(r.jar, Tail(cookies))

set_cookies(cookies) ==
    /\ pc = "ready"
    /\ LET r == for_cookie_in(sessions[self._session].cookies, cookies)
       IN  /\ sessions' = [sessions EXCEPT ![self._session].cookies = r.jar]
           /\ raised' = r.raised
    /\ UNCHANGED <<pc, args, self, returned, ua_log>>

(***************************************************************************)
(* set_user_agent (lines 87-93).                                           *)
(***************************************************************************)
set_user_agent_replace(user_agent) ==
    /\ pc = "ready"
    /\ Len(ua_log) < MaxAgentCalls
    /\ sessions' = [sessions EXCEPT ![self._session].headers = "User-Agent" :> user_agent]
    /\ ua_log' = Append(ua_log, user_agent)
    /\ raised' = "none"
    /\ UNCHANGED <<pc, args, self, returned>>

set_user_agent(user_agent) ==
    /\ pc = "ready"
    /\ Len(ua_log) < MaxAgentCalls
    /\ sessions' = [sessions EXCEPT
                       ![self._session].headers = Update(@, "User-Agent" :> user_agent)]
    /\ ua_log' = Append(ua_log, user_agent)
    /\ raised' = "none"
    /\ UNCHANGED <<pc, args, self, returned>>

(***************************************************************************)
(* The accessor properties (lines 95-123).  Each one constructs an object  *)
(* of its class from (self._url, self._api_key, self._session), stores it  *)
(* in its attribute and returns it.  An object is identified by its class  *)
(* and the serial number of its construction within the class.             *)
(***************************************************************************)
AccessorAttrs == {"_client", "_locations", "_nests", "_nodes", "_servers", "_user"}

ClassOf(attr) ==
    CASE attr = "_client" -> "ClientAPI"
      [] attr = "_locations" -> "Locations"
      [] attr = "_nests" -> "Nests"
      [] attr = "_nodes" -> "Nodes"
      [] attr = "_servers" -> "Servers"
      [] attr = "_user" -> "User"

Constructed(cls) == {o \in BagToSet(returned) : o.cls = cls}

accessor_cached(attr) ==
    /\ pc = "ready"
    /\ BagCardinality(returned) < MaxAccess
    /\ LET cls == ClassOf(attr)
           fresh == [cls |-> cls, serial |-> Cardinality(Constructed(cls)) + 1,
                     url |-> self._url, api_key |-> self._api_key,
                     session |-> self._session]
           obj == IF self[attr] = Null
                  THEN fresh
                  ELSE CHOOSE o \in Constructed(cls) : o.serial = self[attr]
       IN  /\ self' = [self EXCEPT ![attr] = obj.serial]
           /\ returned' = returned (+) SetToBag({obj})
    /\ raised' = "none"
    /\ UNCHANGED <<pc, args, sessions, ua_log>>

accessor_own_session(attr) ==
    /\ pc = "ready"
    /\ BagCardinality(returned) < MaxAccess
    /\ LET cls == ClassOf(attr)
           obj == [cls |-> cls, serial |-> Cardinality(Constructed(cls)) + 1,
                   url |-> self._url, api_key |-> self._api_key,
                   session |-> Len(sessions) + 1]
       IN  /\ self' = [self EXCEPT ![attr] = obj.serial]
           /\ returned' = returned (+) SetToBag({obj})
    /\ sessions' = Append(sessions, NewSession)
    /\ raised' = "none"
    /\ UNCHANGED <<pc, args, ua_log>>

accessor(attr) ==
    /\ pc = "ready"
    /\ BagCardinality(returned) < MaxAccess
    /\ LET cls == ClassOf(attr)
           obj == [cls |-> cls, serial |-> Cardinality(Constructed(cls)) + 1,
                   url |-> self._url, api_key |-> self._api_key,
                   session |-> self._session]
       IN  /\ self' = [self EXCEPT ![attr] = obj.serial]
           /\ returned' = returned (+) SetToBag({obj})
    /\ raised' = "none"
    /\ UNCHANGED <<pc, args, sessions, ua_log>>

client == accessor("_client")
locations == accessor("_locations")
nests == accessor("_nests")
nodes == accessor("_nodes")
servers == accessor("_servers")
user == accessor("_user")

(***************************************************************************)
(* The inputs of the calls.                                                *)
(***************************************************************************)
Urls == {None, "", "https://panel.example"}
ApiKeys == {None, "", "ptlc_xxx"}
Loggers == {get_logger, "custom.logger"}
RetryCodes == {429, 502}

Configs ==
    [url : Urls, api_key : ApiKeys, backoff_factor : {0, 1}, retries : {0, 3},
     extra_retry_codes : SeqsUpTo(RetryCodes, MaxExtra), logger : Loggers]

DefaultConfigs ==
    [url : Urls, api_key : ApiKeys, backoff_factor : {1}, retries : {3},
     extra_retry_codes : {<<>>, <<502>>}, logger : {get_logger}]

\* a cookie dict has any subset of the four keys
CookieValues(key) ==
    CASE key = "name" -> {"sid"}
      [] key = "value" -> {"v1", "v2"}
      [] key = "domain" -> {"panel.example"}
      [] key = "path" -> {"/api"}

CookieKeys == {"name", "value", "domain", "path"}

CookieDicts ==
    {d \in UNION {[K -> UNION {CookieValues(k) : k \in CookieKeys}] : K \in SUBSET CookieKeys} :
        \A k \in DOMAIN d : d[k] \in CookieValues(k)}

CookieLists(n) == SeqsUpTo(CookieDicts, n)

FullCookie == [name |-> "sid", value |-> "v1", domain |-> "panel.example", path |-> "/api"]

UserAgents == {"agent/1", "agent/2"}

(***************************************************************************)
(* The specifications.  A client is constructed once, with the signature's *)
(* defaults standing for the arguments before the call, and is then used   *)
(* through its mutators and accessors in any order.                        *)
(***************************************************************************)
Init ==
    /\ pc = "new"
    /\ args = [url |-> None, api_key |-> None, backoff_factor |-> 1, retries |-> 3,
               extra_retry_codes |-> <<>>, logger |-> get_logger]
    /\ self = NoAttributes
    /\ sessions = <<>>
    /\ returned = EmptyBag
    /\ raised = "none"
    /\ ua_log = <<>>

Construct(configs) ==
    \E c \in configs :
        PterodactylClient_init(c.url, c.api_key, c.backoff_factor, c.retries,
                               c.extra_retry_codes, c.logger)

\* a session of a default configuration, one cookie per set_cookies call
Next ==
    \/ Construct(DefaultConfigs)
    \/ \E cookies \in CookieLists(1) : set_cookies(cookies)
    \/ \E user_agent \in UserAgents : set_user_agent(user_agent)
    \/ client
    \/ locations
    \/ nests
    \/ nodes
    \/ servers
    \/ user

Spec == Init /\ [][Next]_vars

\* every configuration, with one cookie and one user agent to apply
NextConfig ==
    \/ Construct(Configs)
    \/ \E cookies \in {<<FullCookie>>} : set_cookies(cookies)
    \/ \E user_agent \in {"agent/1"} : set_user_agent(user_agent)
    \/ client
    \/ locations
    \/ nests
    \/ nodes
    \/ servers
    \/ user

SpecConfig == Init /\ [][NextConfig]_vars

\* a session of a default configuration, cookie lists of every shape
NextCookies ==
    \/ Construct(DefaultConfigs)
    \/ \E cookies \in CookieLists(MaxCookies) : set_cookies(cookies)
    \/ \E user_agent \in UserAgents : set_user_agent(user_agent)
    \/ client
    \/ locations
    \/ nests
    \/ nodes
    \/ servers
    \/ user

SpecCookies == Init /\ [][NextCookies]_vars

(***************************************************************************)
(* What the claims read.                                                   *)
(***************************************************************************)
Transport == sessions[self._session]

Prefixes == {"https://", "http://"}

Policy(prefix) == Transport.adapters[prefix].max_retries

Missing(x) == x = None \/ x = ""

\* what an accessor object sees through the transport it was constructed with
Seen(o) == sessions[o.session]

\* the jar key the cookie dict c is to be stored under: path "/" and the
\* unscoped (empty) domain when the dict has none
Unscoped == ""
TripleOf(c) == <<Get(c, "domain", Unscoped), Get(c, "path", "/"), c["name"]>>

WellFormed(c) == "name" \in DOMAIN c /\ "value" \in DOMAIN c

\* the jar after the cookies of a list were applied in order, the latest value
\* of a triple replacing the earlier one
RECURSIVE Applied(_, _)
Applied(jar, cookies) ==
    IF cookies = <<>>
    THEN jar
    ELSE Applied(Update(jar, TripleOf(Head(cookies)) :> Head(cookies)["value"]),
                 Tail(cookies))

FirstMalformed(cookies) ==
    CHOOSE i \in DOMAIN cookies :
        /\ ~WellFormed(cookies[i])
        /\ \A j \in 1..(i - 1) : WellFormed(cookies[j])

(***************************************************************************)
(* C1: construction raises ClientConfigError exactly when url or api_key   *)
(* is missing or empty, whatever the other arguments are, and succeeds     *)
(* otherwise.                                                              *)
(***************************************************************************)
C1_ConfigErrorIffMissing ==
    pc # "new" =>
        /\ (pc = "failed") <=> (Missing(args.url) \/ Missing(args.api_key))
        /\ (pc = "failed") => raised = "ClientConfigError"
        /\ (pc = "ready") => (self._url = args.url /\ self._api_key = args.api_key)

C1_Witness ==
    /\ pc = "failed"
    /\ raised = "ClientConfigError"
    /\ args.url = "https://panel.example"
    /\ args.api_key = ""
    /\ args.extra_retry_codes = <<502, 429>>
    /\ args.retries = 0
    /\ args.logger = "custom.logger"

(***************************************************************************)
(* C2: the retryable status set of the mounted retry policy is             *)
(* {429} united with the caller's extra codes: 429 is in it even with no   *)
(* extra codes, every extra code is in it, nothing else is, and a repeated *)
(* code or a caller's own 429 changes nothing.                             *)
(***************************************************************************)
C2_StatusSetIs429PlusExtra ==
    pc = "ready" =>
        \A prefix \in Prefixes :
            Range(Policy(prefix).status_forcelist) = {429} \cup Range(args.extra_retry_codes)

C2_Witness ==
    /\ pc = "ready"
    /\ args.extra_retry_codes = <<502, 502>>
    /\ Range(Policy("https://").status_forcelist) = {429, 502}

(***************************************************************************)
(* C3: in every state of a constructed session the methods eligible for    *)
(* retry are exactly DELETE, GET, HEAD, OPTIONS, POST and PUT, on the      *)
(* http:// mount as on the https:// mount.                                 *)
(***************************************************************************)
C3_RetryMethodsFixed ==
    pc = "ready" =>
        \A prefix \in Prefixes :
            Range(Policy(prefix).allowed_methods)
                = {"DELETE", "GET", "HEAD", "OPTIONS", "POST", "PUT"}

C3_Witness ==
    /\ pc = "ready"
    /\ args.extra_retry_codes # <<>>
    /\ args.retries = 0
    /\ Transport.cookies # EmptyDict
    /\ ua_log # <<>>
    /\ returned # EmptyBag
    /\ Policy("http://") = Policy("https://")

(***************************************************************************)
(* C4: one transport per session: the one created at construction is the   *)
(* one every accessor object holds, whatever its class and whenever it was *)
(* obtained, so all of them see the same cookies, headers and retry        *)
(* policy after any mutation.                                              *)
(***************************************************************************)
C4_OneSharedTransport ==
    pc = "ready" =>
        /\ Len(sessions) = 1
        /\ self._session = 1
        /\ \A o \in BagToSet(returned) :
               /\ o.session = self._session
               /\ Seen(o).cookies = Transport.cookies
               /\ Seen(o).headers = Transport.headers
               /\ Seen(o).adapters = Transport.adapters

C4_Witness ==
    /\ pc = "ready"
    /\ \E o1, o2 \in BagToSet(returned) :
           /\ o1.cls = "Servers"
           /\ o2.cls = "ClientAPI"
           /\ Seen(o1).cookies = Seen(o2).cookies
           /\ Seen(o1).cookies # EmptyDict
           /\ Seen(o1).headers["User-Agent"] = "agent/2"
           /\ Seen(o2).headers["User-Agent"] = "agent/2"

(***************************************************************************)
(* C7: a construction that raises the configuration error has set up       *)
(* nothing: no transport exists, no attribute (url, api_key, session) is   *)
(* stored, and no accessor object was obtained.                            *)
(***************************************************************************)
C7_FailsBeforeSetup ==
    pc = "failed" =>
        /\ sessions = <<>>
        /\ DOMAIN self = {}
        /\ returned = EmptyBag

C7_Witness ==
    /\ pc = "failed"
    /\ args.url = ""
    /\ args.api_key = "ptlc_xxx"
    /\ sessions = <<>>

(***************************************************************************)
(* C8: no caching: no accessor object is returned by two accesses, each    *)
(* object is bound to the session's url, api_key and transport, and the    *)
(* attribute of a property holds the object of its latest access.          *)
(***************************************************************************)
C8_AccessorsNotCached ==
    pc = "ready" =>
        /\ \A o \in BagToSet(returned) :
               /\ CopiesIn(o, returned) = 1
               /\ o.url = self._url
               /\ o.api_key = self._api_key
               /\ o.session = self._session
        /\ \A attr \in AccessorAttrs :
               self[attr] = Cardinality(Constructed(ClassOf(attr)))

C8_Witness ==
    /\ pc = "ready"
    /\ \E o1, o2 \in BagToSet(returned) :
           /\ o1.cls = "Nodes"
           /\ o2.cls = "Nodes"
           /\ o1.serial # o2.serial
           /\ self._nodes = o2.serial

(***************************************************************************)
(* C9: after set_user_agent calls the User-Agent header of the transport   *)
(* is the argument of the latest call, and a call changes nothing else: no *)
(* other header, no cookie, no adapter, no attribute of the client.        *)
(***************************************************************************)
C9_UserAgentLatestOnly ==
    /\ [](pc = "ready" =>
            Transport.headers["User-Agent"] =
                IF ua_log = <<>> THEN DefaultHeaders["User-Agent"] ELSE ua_log[Len(ua_log)])
    /\ [][ua_log' # ua_log =>
            /\ Len(sessions') = Len(sessions)
            /\ self' = self
            /\ LET before == sessions[self._session]
                   after == sessions'[self._session]
               IN  /\ after.headers["User-Agent"] = ua_log'[Len(ua_log')]
                   /\ DOMAIN after.headers = DOMAIN before.headers
                   /\ \A h \in DOMAIN before.headers \ {"User-Agent"} :
                          after.headers[h] = before.headers[h]
                   /\ after.cookies = before.cookies
                   /\ after.adapters = before.adapters]_vars

C9_Witness ==
    /\ pc = "ready"
    /\ ua_log = <<"agent/1", "agent/2">>
    /\ Transport.headers["User-Agent"] = "agent/2"
    /\ Transport.headers["Accept"] = "*/*"
    /\ Transport.cookies # EmptyDict

(***************************************************************************)
(* C5: set_cookies stores each cookie under (domain, path, name), path     *)
(* "/" and the unscoped domain standing in for an absent path or domain,   *)
(* and a cookie applied to a triple already in the jar replaces its value: *)
(* after a call with a list of cookies that all have a name and a value,   *)
(* the jar is the jar before with the latest value of every triple of the  *)
(* list.                                                                   *)
(***************************************************************************)
C5_CookiesKeyedByTriple ==
    [][\A cookies \in CookieLists(MaxCookies) :
          (set_cookies(cookies) /\ \A i \in DOMAIN cookies : WellFormed(cookies[i]))
              => sessions'[self._session].cookies = Applied(Transport.cookies, cookies)]_vars

(***************************************************************************)
(* C10: set_cookies is not atomic: a list with an entry that lacks 'name'  *)
(* or 'value' raises at the first such entry, the entries before it are    *)
(* applied to the jar and stay applied, the entries after it are not.      *)
(***************************************************************************)
C10_PrefixAppliedOnKeyError ==
    [][\A cookies \in CookieLists(MaxCookies) :
          (set_cookies(cookies) /\ \E i \in DOMAIN cookies : ~WellFormed(cookies[i]))
              => /\ raised' = "KeyError"
                 /\ sessions'[self._session].cookies =
                        Applied(Transport.cookies,
                                SubSeq(cookies, 1, FirstMalformed(cookies) - 1))]_vars

====
